---- MODULE Spec2Model ----
(***************************************************************************)
(* Model of source/grid/manifold.cc (deal.II): the default quadratures of  *)
(* lines, quads and hexes, the per-entity queries of Manifold and their    *)
(* dispatch by dimension, the periodic averaging of FlatManifold and the   *)
(* chart delegation of ManifoldChart.                                      *)
(*                                                                         *)
(* Numbers.  A coordinate is a double.  It is modelled as a binary         *)
(* floating-point number with Prec significand bits, written as an integer *)
(* number of ticks (the smallest spacing of the format); every arithmetic  *)
(* operation on coordinates rounds its exact result to the nearest         *)
(* representable number, ties to even, as IEEE-754 does.  A weight is the  *)
(* rational number the source writes (1.0/128.0, 7.0/192.0, ...), kept as  *)
(* an integer number of WDen-ths.  The two 1e-10 tolerances of the source  *)
(* are far above the rounding error of a double and far below one tick and *)
(* one WDen-th, so the toleranced comparisons are decided on exact values. *)
(***************************************************************************)
EXTENDS Integers, Sequences, FiniteSets, TLC

\* ------------------------------------------------------------------ bounds
Prec == 4          \* significand bits of the modelled floating-point format
MaxSamples == 3    \* longest quadrature a caller builds by hand

\* --------------------------------------------------------------- constants
WDen == 384        \* weights are counted in 384ths: 1/128 = 3, 7/192 = 14, 1/12 = 32
spacedim == 2      \* template parameter: number of coordinate axes of a Point

Axes == 1..spacedim

Abs(x) == IF x < 0 THEN -x ELSE x

RECURSIVE Pow2(_)
Pow2(n) == IF n = 0 THEN 1 ELSE 2 * Pow2(n - 1)

\* ------------------------------------------------ double arithmetic (IEEE)
\* the power of two s for which a/(den*s) has at most Prec significand bits
RECURSIVE Scale(_, _, _)
Scale(a, den, s) == IF a < Pow2(Prec) * den * s THEN s ELSE Scale(a, den, 2 * s)

\* a/b rounded to the nearest integer, ties to the even one
RoundNearestEven(a, b) ==
  LET f == a \div b
      r == a % b
  IN  IF 2 * r < b THEN f
      ELSE IF 2 * r > b THEN f + 1
      ELSE IF f % 2 = 0 THEN f ELSE f + 1

\* the representable number nearest to num/den
RoundSig(num, den) ==
  LET a == Abs(num)
      s == Scale(a, den, 1)
      m == RoundNearestEven(a, den * s)
  IN  IF num < 0 THEN -(m * s) ELSE m * s

fadd(a, b) == RoundSig(a + b, 1)       \* double + double
fsub(a, b) == RoundSig(a - b, 1)       \* double - double
fmul(c, w) == RoundSig(c * w, WDen)    \* double * weight
fhalf(a) == RoundSig(a, 2)             \* double / 2.0

Representable(x) == RoundSig(x, 1) = x

\* the double is neither an infinity nor a NaN (every value of the model)
Finite(x) == x \in Int

\* ------------------------------------------------------------------ points
ZeroPoint(axes) == [d \in axes |-> 0]               \* Point<spacedim>()
Origin == ZeroPoint(Axes)

\* Point::norm() != 0
NormNonZero(a) == \E d \in DOMAIN a : a[d] # 0

\* ------------------------------------------------------------- Quadrature
\* Quadrature<spacedim>(sp, wp): points and weights, positionally aligned
Quadrature(sp, wp) == [points |-> sp, weights |-> wp]

EmptyQuadrature == Quadrature(<<>>, <<>>)

\* ------------------------------------------------------------ tolerances
\* std::abs(sum - 1.0) < 1e-10, sum counted in WDen-ths (1e-10 < 1/WDen)
WeightsSumToOne(sum) == Abs(sum - WDen) = 0

\* x < L + 1e-10, both in ticks (1e-10 is less than one tick)
BelowPeriod(x, L) == x <= L

\* ------------------------------------------- mesh accessors (tria_accessor.h)
\* An entity (line, quad or hex) is [structdim, vertices, lines, faces]; a
\* line or face of it is [has_children, child_vertex, center].
structure_dimension(obj) == obj.structdim
vertex(obj, i) == obj.vertices[i + 1]
line(obj, i) == obj.lines[i + 1]
face(obj, i) == obj.faces[i + 1]
has_children(sub) == sub.has_children
child0_vertex1(sub) == sub.child_vertex              \* child(0)->vertex(1)
isotropic_child0_vertex3(sub) == sub.child_vertex    \* isotropic_child(0)->vertex(3)
center(sub) == sub.center

\* GeometryInfo<3>
vertices_per_cell == 8
lines_per_cell == 12
faces_per_cell == 6

\* the weight n/d in WDen-ths
Weight(n, d) == (n * WDen) \div d

\* -------------------------------------- Manifolds::get_default_quadrature
\* (variant: the two branches are exchanged)
LineSampleExchanged(l) == IF has_children(l) THEN center(l) ELSE child0_vertex1(l)

\* the sample of a line of the entity (l.51-52 and l.91-102)
LineSample(l) == IF has_children(l) THEN child0_vertex1(l) ELSE center(l)

\* the sample of a face of a hex (l.57-58)
FaceSample(f) == IF has_children(f) THEN isotropic_child0_vertex3(f) ELSE center(f)

HexVertexWeight == Weight(1, 128)
\* (variant: the line weight is 1/24)
HexLineWeightTwentyFourth == Weight(1, 24)
HexLineWeight == Weight(7, 192)
HexFaceWeight == Weight(1, 12)

\* the three loops of the hex overload, appending sample j = Len(q.points)
RECURSIVE HexVertexLoop(_, _, _)
HexVertexLoop(obj, q, i) ==
  IF i >= vertices_per_cell THEN q
  ELSE HexVertexLoop(obj, Quadrature(Append(q.points, vertex(obj, i)),
                                     Append(q.weights, HexVertexWeight)), i + 1)

RECURSIVE HexLineLoop(_, _, _)
HexLineLoop(obj, q, i) ==
  IF i >= lines_per_cell THEN q
  ELSE HexLineLoop(obj, Quadrature(Append(q.points, LineSample(line(obj, i))),
                                   Append(q.weights, HexLineWeight)), i + 1)

RECURSIVE HexFaceLoop(_, _, _)
HexFaceLoop(obj, q, i) ==
  IF i >= faces_per_cell THEN q
  ELSE HexFaceLoop(obj, Quadrature(Append(q.points, FaceSample(face(obj, i))),
                                   Append(q.weights, HexFaceWeight)), i + 1)

\* get_default_quadrature(const TriaIterator<CellAccessor<3,3> >&, Quadrature<3>&)
HexDefaultQuadrature(obj) ==
  [status |-> "ok",
   quad |-> HexFaceLoop(obj, HexLineLoop(obj, HexVertexLoop(obj, EmptyQuadrature, 0), 0), 0)]

\* wp of a quad: std::fill of the corner and of the line weights
QuadWeights(with_laplace) ==
  IF with_laplace
  THEN [j \in 1..8 |-> IF j <= 4 THEN Weight(1, 16) ELSE Weight(3, 16)]
  ELSE [j \in 1..8 |-> Weight(1, 8)]

\* template get_default_quadrature(obj, quad, with_laplace)
DefaultQuadrature(obj, with_laplace) ==
  CASE structure_dimension(obj) = 1 ->
         [status |-> "ok",
          quad |-> Quadrature(<<vertex(obj, 0), vertex(obj, 1)>>, <<Weight(1, 2), Weight(1, 2)>>)]
    [] structure_dimension(obj) = 2 ->
         [status |-> "ok",
          quad |-> Quadrature(<<vertex(obj, 0), vertex(obj, 1), vertex(obj, 2), vertex(obj, 3),
                                LineSample(line(obj, 0)), LineSample(line(obj, 1)),
                                LineSample(line(obj, 2)), LineSample(line(obj, 3))>>,
                              QuadWeights(with_laplace))]
    [] OTHER -> [status |-> "ExcInternalError", quad |-> EmptyQuadrature]

\* ------------------------------------------------------ Manifold (l.121-162)
\* sum += weights[i] over the whole vector
RECURSIVE SumWeights(_, _)
SumWeights(weights, i) ==
  IF i > Len(weights) THEN 0 ELSE weights[i] + SumWeights(weights, i + 1)

\* axis d of p += surrounding_points[i] * weights[i] for i, i+1, ...
RECURSIVE BaseSumLoop(_, _, _, _)
BaseSumLoop(quad, d, pd, i) ==
  IF i > Len(quad.points) THEN pd
  ELSE LET next == fadd(pd, fmul(quad.points[i][d], quad.weights[i]))
       IN  IF Finite(next) THEN BaseSumLoop(quad, d, next, i + 1) ELSE next

\* Manifold::project_to_manifold: Assert(false, ExcPureFunctionCalled())
ManifoldProjectToManifold(vertices, candidate) ==
  [status |-> "ExcPureFunctionCalled", point |-> ZeroPoint(DOMAIN candidate)]

\* Manifold::get_new_point in a debug build, for a class that overrides
\* neither get_new_point nor project_to_manifold
ManifoldGetNewPoint(quad, axes) ==
  IF ~WeightsSumToOne(SumWeights(quad.weights, 1))
    THEN [status |-> "ExcWeights", point |-> ZeroPoint(axes)]
  ELSE ManifoldProjectToManifold(quad.points, [d \in axes |-> BaseSumLoop(quad, d, 0, 1)])

\* ------------------------------------------------- FlatManifold (l.305-366)
\* bool check_period = (periodicity.norm() != 0)
CheckPeriod(periodicity) == NormNonZero(periodicity)

\* (variant: minP starts at the origin)
MinPInitZero(periodicity) == ZeroPoint(DOMAIN periodicity)

\* Point<spacedim> minP = periodicity
MinPInit(periodicity) == periodicity

\* minP[d] = std::min(minP[d], surrounding_points[i][d]) for i, i+1, ...
RECURSIVE MinPLoop(_, _, _, _)
MinPLoop(sp, d, minPd, i) ==
  IF i > Len(sp) THEN minPd
  ELSE IF sp[i][d] < minPd THEN MinPLoop(sp, d, sp[i][d], i + 1)
       ELSE MinPLoop(sp, d, minPd, i + 1)

\* the Assert of the first loop holds for sample i on axis d
InPeriodicBox(x, L) == BelowPeriod(x, L)

\* no Assert of the first loop fires
AllInPeriodicBox(sp, periodicity) ==
  \A i \in 1..Len(sp) : \A d \in DOMAIN periodicity :
    periodicity[d] > 0 => InPeriodicBox(sp[i][d], periodicity[d])

\* (variant: the threshold is the whole period)
WrapShiftWholePeriod(x, minPd, L) == IF fsub(x, minPd) > L THEN -L ELSE 0

\* dp[d] = ((x - minP[d]) > periodicity[d]/2.0 ? -periodicity[d] : 0.0)
WrapShift(x, minPd, L) == IF fsub(x, minPd) > fhalf(L) THEN -L ELSE 0

\* dp[d] for sample coordinate x
ShiftOf(x, minPd, L, check_period) ==
  IF check_period /\ L > 0 THEN WrapShift(x, minPd, L) ELSE 0

\* axis d of p += (surrounding_points[i] + dp) * weights[i] for i, i+1, ...
RECURSIVE FlatSumLoop(_, _, _, _, _, _, _)
FlatSumLoop(quad, d, minPd, L, check_period, pd, i) ==
  IF i > Len(quad.points) THEN pd
  ELSE LET dp == ShiftOf(quad.points[i][d], minPd, L, check_period)
           next == fadd(pd, fmul(fadd(quad.points[i][d], dp), quad.weights[i]))
       IN  IF Finite(next) THEN FlatSumLoop(quad, d, minPd, L, check_period, next, i + 1)
           ELSE next

\* p[d] = (p[d] < 0 ? p[d] + periodicity[d] : p[d])
Unwrap(pd, L) == IF pd < 0 THEN fadd(pd, L) ELSE pd

UnwrapPoint(p, periodicity, check_period) ==
  [d \in DOMAIN periodicity |-> IF check_period /\ periodicity[d] > 0 THEN Unwrap(p[d], periodicity[d]) ELSE p[d]]

\* FlatManifold::project_to_manifold
FlatProjectToManifold(vertices, candidate) == candidate

\* FlatManifold::get_new_point in a debug build: the outcome and the point
FlatGetNewPoint(quad, periodicity) ==
  LET check_period == CheckPeriod(periodicity)
      axes == DOMAIN periodicity
      minP == [d \in axes |-> IF check_period
                              THEN MinPLoop(quad.points, d, MinPInit(periodicity)[d], 1)
                              ELSE MinPInit(periodicity)[d]]
      p == [d \in axes |-> FlatSumLoop(quad, d, minP[d], periodicity[d], check_period, 0, 1)]
  IN  IF ~WeightsSumToOne(SumWeights(quad.weights, 1))
        THEN [status |-> "ExcWeights", point |-> ZeroPoint(axes)]
      ELSE IF check_period /\ ~AllInPeriodicBox(quad.points, periodicity)
        THEN [status |-> "ExcPeriodicBox", point |-> ZeroPoint(axes)]
      ELSE [status |-> "ok",
            point |-> FlatProjectToManifold(quad.points, UnwrapPoint(p, periodicity, check_period))]

\* ------------------------------------------------ ManifoldChart (l.369-397)
\* the charts of the concrete subclasses: pull_back and push_forward
Charts == {"identity", "swap", "halve"}

pull_back(chart, x) ==
  CASE chart = "identity" -> x
    [] chart = "swap" -> [d \in DOMAIN x |-> x[Len(x) + 1 - d]]
    [] chart = "halve" -> [d \in DOMAIN x |-> fhalf(x[d])]

push_forward(chart, q) ==
  CASE chart = "identity" -> q
    [] chart = "swap" -> [d \in DOMAIN q |-> q[Len(q) + 1 - d]]
    [] chart = "halve" -> [d \in DOMAIN q |-> fadd(q[d], q[d])]

\* chart_points[i] = pull_back(surrounding_points[i]) for i, i+1, ...
RECURSIVE ChartPointsLoop(_, _, _, _)
ChartPointsLoop(chart, sp, chart_points, i) ==
  IF i > Len(sp) THEN chart_points
  ELSE ChartPointsLoop(chart, sp, Append(chart_points, pull_back(chart, sp[i])), i + 1)

\* (variant: the sub_manifold is default-constructed)
SubManifoldDefault(periodicity) == ZeroPoint(DOMAIN periodicity)

\* the periodicity of the sub_manifold built by ManifoldChart(periodicity)
SubManifoldPeriodicity(periodicity) == periodicity

\* ManifoldChart::get_new_point
ChartGetNewPoint(chart, quad, periodicity) ==
  LET chart_points == ChartPointsLoop(chart, quad.points, <<>>, 1)
      chart_quad == Quadrature(chart_points, quad.weights)
      p_chart == FlatGetNewPoint(chart_quad, SubManifoldPeriodicity(periodicity))
  IN  IF p_chart.status # "ok" THEN p_chart
      ELSE [status |-> "ok", point |-> push_forward(chart, p_chart.point)]

\* ------------------------------------- the queries of Manifold (l.165-302)
\* A manifold object is [class, chart, dim, spacedim]; per is its periodicity.
\* A query returns [status, point, quad, trace]: the quadrature it built and
\* the functions it entered, in call order.

\* virtual get_new_point
GetNewPoint(m, per, quad) ==
  CASE m.class = "Manifold" -> ManifoldGetNewPoint(quad, DOMAIN per)
    [] m.class = "FlatManifold" -> FlatGetNewPoint(quad, per)
    [] m.class = "ManifoldChart" -> ChartGetNewPoint(m.chart, quad, per)

\* Assert(false, ExcImpossibleInDim(dim)) in the function called name
ImpossibleInDim(per, name) ==
  [status |-> "ExcImpossibleInDim", point |-> ZeroPoint(DOMAIN per),
   quad |-> EmptyQuadrature, trace |-> <<name>>]

\* Quadrature quadrature; get_default_quadrature(...); return get_new_point(quadrature)
BuildAndAverage(m, per, built, name) ==
  IF built.status # "ok"
  THEN [status |-> built.status, point |-> ZeroPoint(DOMAIN per), quad |-> built.quad,
        trace |-> <<name, "get_default_quadrature">>]
  ELSE LET r == GetNewPoint(m, per, built.quad)
       IN  [status |-> r.status, point |-> r.point, quad |-> built.quad,
            trace |-> <<name, "get_default_quadrature", "get_new_point">>]

\* the caller's frame on top of the callee's
Entered(name, r) == [r EXCEPT !.trace = <<name>> \o r.trace]

get_new_point_on_line(m, per, obj) ==
  BuildAndAverage(m, per, DefaultQuadrature(obj, FALSE), "get_new_point_on_line")

\* (variant: no specialization for dim = 1)
get_new_point_on_quad_generic(m, per, obj) ==
  BuildAndAverage(m, per, DefaultQuadrature(obj, FALSE), "get_new_point_on_quad")

get_new_point_on_quad(m, per, obj) ==
  IF m.dim = 1
  THEN ImpossibleInDim(per, "get_new_point_on_quad")
  ELSE BuildAndAverage(m, per, DefaultQuadrature(obj, FALSE), "get_new_point_on_quad")

get_new_point_on_hex(m, per, obj) ==
  IF m.dim = 3 /\ m.spacedim = 3
  THEN BuildAndAverage(m, per, HexDefaultQuadrature(obj), "get_new_point_on_hex")
  ELSE ImpossibleInDim(per, "get_new_point_on_hex")

get_new_point_on_face(m, per, obj) ==
  IF m.dim = 1
  THEN ImpossibleInDim(per, "get_new_point_on_face")
  ELSE CASE m.dim = 2 -> Entered("get_new_point_on_face", get_new_point_on_line(m, per, obj))
         [] m.dim = 3 -> Entered("get_new_point_on_face", get_new_point_on_quad(m, per, obj))

\* (variant: every cell is treated as a line)
get_new_point_on_cell_as_line(m, per, obj) ==
  Entered("get_new_point_on_cell", get_new_point_on_line(m, per, obj))

get_new_point_on_cell(m, per, obj) ==
  CASE m.dim = 1 -> Entered("get_new_point_on_cell", get_new_point_on_line(m, per, obj))
    [] m.dim = 2 -> Entered("get_new_point_on_cell", get_new_point_on_quad(m, per, obj))
    [] m.dim = 3 -> Entered("get_new_point_on_cell", get_new_point_on_hex(m, per, obj))

\* ------------------------------------------------------------ the state
VARIABLES
  manifold,      \* the manifold object: [class, chart, dim, spacedim]
  periodicity,   \* FlatManifold::periodicity, or that of the chart's sub_manifold
  entity,        \* the mesh entity a query is asked about
  quad,          \* the Quadrature passed to get_new_point
  pc,            \* "build"/"mesh" before the call, "done" after it
  query,         \* the member function the caller called
  trace,         \* the functions the call entered, in call order
  result,        \* outcome of the call: [status, point]
  pool,          \* the Quadrature objects the parallel workers pass
  worker         \* per worker: the frame of its get_new_point call

vars == <<manifold, periodicity, entity, quad, pc, query, trace, result, pool, worker>>

\* no parallel worker is used
wvars == <<pool, worker>>
NoWorkers == pool = <<>> /\ worker = <<>>

NoResult(axes) == [status |-> "none", point |-> ZeroPoint(axes)]
NoEntity == [structdim |-> 0, vertices |-> <<>>, lines |-> <<>>, faces |-> <<>>]

\* --------------------------------------------- the callers of get_new_point
Period == Pow2(12)     \* the period L of a periodic axis: 1.0 is 4096 ticks

Periodicities == [Axes -> {0, Period}]

\* sample points a caller passes: inside the box, on its upper edge, below 0
\* and above the period
SamplePoints ==
  { <<0, 0>>, <<128, 3840>>, <<2304, 128>>, <<3840, 2304>>,
    <<4096, 0>>, <<-256, 4608>>, <<4608, -256>> }

\* weights a caller passes: 1/4, 3/8, 1/2, 5/8 and 1
SampleWeights == {96, 144, 192, 240, 384}

Manifolds ==
  {[class |-> "Manifold", chart |-> "none", dim |-> spacedim, spacedim |-> spacedim],
   [class |-> "FlatManifold", chart |-> "none", dim |-> spacedim, spacedim |-> spacedim]}
    \cup {[class |-> "ManifoldChart", chart |-> c, dim |-> spacedim, spacedim |-> spacedim] :
            c \in Charts}

Init ==
  /\ manifold \in Manifolds
  /\ periodicity \in Periodicities
  /\ manifold.class = "Manifold" => periodicity = Origin
  /\ entity = NoEntity
  /\ quad = EmptyQuadrature
  /\ pc = "build"
  /\ query = "none"
  /\ trace = <<>>
  /\ result = NoResult(Axes)
  /\ NoWorkers

\* the caller appends one sample to the quadrature it is building
AddSample ==
  /\ pc = "build"
  /\ Len(quad.points) < MaxSamples
  /\ \E x \in SamplePoints, w \in SampleWeights :
       /\ SumWeights(quad.weights, 1) + w <= WDen
       /\ quad' = Quadrature(Append(quad.points, x), Append(quad.weights, w))
  /\ UNCHANGED <<manifold, periodicity, entity, pc, query, trace, result, wvars>>

\* virtual get_new_point(quad) on a class that inherits Manifold::get_new_point
CallManifoldGetNewPoint ==
  /\ pc = "build"
  /\ manifold.class = "Manifold"
  /\ result' = ManifoldGetNewPoint(quad, Axes)
  /\ pc' = "done"
  /\ query' = "get_new_point"
  /\ trace' = <<"get_new_point">>
  /\ UNCHANGED <<manifold, periodicity, entity, quad, wvars>>

\* virtual get_new_point(quad) on a FlatManifold
CallFlatGetNewPoint ==
  /\ pc = "build"
  /\ manifold.class = "FlatManifold"
  /\ result' = FlatGetNewPoint(quad, periodicity)
  /\ pc' = "done"
  /\ query' = "get_new_point"
  /\ trace' = <<"get_new_point">>
  /\ UNCHANGED <<manifold, periodicity, entity, quad, wvars>>

\* virtual get_new_point(quad) on a ManifoldChart
CallChartGetNewPoint ==
  /\ pc = "build"
  /\ manifold.class = "ManifoldChart"
  /\ result' = ChartGetNewPoint(manifold.chart, quad, periodicity)
  /\ pc' = "done"
  /\ query' = "get_new_point"
  /\ trace' = <<"get_new_point">>
  /\ UNCHANGED <<manifold, periodicity, entity, quad, wvars>>

Next == AddSample \/ CallManifoldGetNewPoint \/ CallFlatGetNewPoint \/ CallChartGetNewPoint

Spec == Init /\ [][Next]_vars

Statuses ==
  {"none", "ok", "ExcWeights", "ExcPeriodicBox", "ExcPureFunctionCalled",
   "ExcImpossibleInDim", "ExcInternalError"}

TypeOK ==
  /\ pc \in {"build", "mesh", "workers", "done"}
  /\ Len(quad.points) = Len(quad.weights)
  /\ result.status \in Statuses
  /\ DOMAIN result.point = DOMAIN periodicity
  /\ \A d \in DOMAIN result.point : Representable(result.point[d])

\* --------------------------------------------------- the callers of queries
MaxRefined == 2        \* most lines and faces of the entity refined by neighbours

Side == Pow2(10)       \* edge length of the entities
Bump == Pow2(8)        \* how far a child vertex sits from the centre of its parent

Bit(k, a) == (k \div Pow2(a - 1)) % 2

\* vertex k of the structdim-cube at base, in sd-space
CubeVertex(sd, base, structdim, k) ==
  [a \in 1..sd |-> base + (IF a <= structdim THEN Bit(k, a) * Side ELSE 0)]

RECURSIVE SumAxis(_, _, _)
SumAxis(ps, a, i) == IF i > Len(ps) THEN 0 ELSE ps[i][a] + SumAxis(ps, a, i + 1)

\* a line or face with corner points ps, not refined
SubEntity(ps) ==
  LET c == [a \in DOMAIN ps[1] |-> SumAxis(ps, a, 1) \div Len(ps)]
  IN  [has_children |-> FALSE, center |-> c,
       child_vertex |-> [c EXCEPT ![1] = c[1] + Bump]]

\* GeometryInfo: the vertices of the lines of a quad and of a hex, and of
\* the faces of a hex
QuadLines == << <<0, 2>>, <<1, 3>>, <<0, 1>>, <<2, 3>> >>
HexLines == << <<0, 2>>, <<1, 3>>, <<0, 1>>, <<2, 3>>, <<4, 6>>, <<5, 7>>, <<4, 5>>, <<6, 7>>,
               <<0, 4>>, <<1, 5>>, <<2, 6>>, <<3, 7>> >>
HexFaces == << <<0, 2, 4, 6>>, <<1, 3, 5, 7>>, <<0, 1, 4, 5>>, <<2, 3, 6, 7>>,
               <<0, 1, 2, 3>>, <<4, 5, 6, 7>> >>

MakeEntity(sd, base, structdim) ==
  LET v == [k \in 1..Pow2(structdim) |-> CubeVertex(sd, base, structdim, k - 1)]
      sub(ks) == SubEntity([j \in DOMAIN ks |-> v[ks[j] + 1]])
      ls == CASE structdim = 1 -> <<>>
              [] structdim = 2 -> QuadLines
              [] structdim = 3 -> HexLines
      fs == IF structdim = 3 THEN HexFaces ELSE <<>>
  IN  [structdim |-> structdim, vertices |-> v,
       lines |-> [i \in DOMAIN ls |-> sub(ls[i])],
       faces |-> [i \in DOMAIN fs |-> sub(fs[i])]]

Bases == {Pow2(11)}

\* the instantiations of manifold.inst
Instantiations == {<<1, 1>>, <<1, 2>>, <<1, 3>>, <<2, 2>>, <<2, 3>>, <<3, 3>>}

EntityManifolds ==
  {[class |-> c[1], chart |-> c[2], dim |-> i[1], spacedim |-> i[2]] :
     c \in {<<"Manifold", "none">>, <<"FlatManifold", "none">>},
     i \in Instantiations}

NRefined ==
  Cardinality({i \in DOMAIN entity.lines : entity.lines[i].has_children})
    + Cardinality({i \in DOMAIN entity.faces : entity.faces[i].has_children})

InitEntity ==
  /\ manifold \in EntityManifolds
  /\ periodicity \in {[a \in 1..manifold.spacedim |-> 0],
                      [a \in 1..manifold.spacedim |-> IF a = 1 THEN Period ELSE 0]}
  /\ manifold.class = "Manifold" => periodicity = ZeroPoint(1..manifold.spacedim)
  /\ \E base \in Bases, k \in 1..manifold.dim : entity = MakeEntity(manifold.spacedim, base, k)
  /\ quad = EmptyQuadrature
  /\ pc = "mesh"
  /\ query = "none"
  /\ trace = <<>>
  /\ result = NoResult(1..manifold.spacedim)
  /\ NoWorkers

\* a neighbouring cell refines line i of the entity
RefineLine ==
  /\ pc = "mesh"
  /\ NRefined < MaxRefined
  /\ \E i \in DOMAIN entity.lines :
       /\ ~entity.lines[i].has_children
       /\ entity' = [entity EXCEPT !.lines[i].has_children = TRUE]
  /\ UNCHANGED <<manifold, periodicity, quad, pc, query, trace, result, wvars>>

\* a neighbouring cell refines face i of the entity
RefineFace ==
  /\ pc = "mesh"
  /\ NRefined < MaxRefined
  /\ \E i \in DOMAIN entity.faces :
       /\ ~entity.faces[i].has_children
       /\ entity' = [entity EXCEPT !.faces[i].has_children = TRUE]
  /\ UNCHANGED <<manifold, periodicity, quad, pc, query, trace, result, wvars>>

\* the call returned r
Returned(name, r) ==
  /\ pc' = "done"
  /\ query' = name
  /\ result' = [status |-> r.status, point |-> r.point]
  /\ quad' = r.quad
  /\ trace' = r.trace
  /\ UNCHANGED <<manifold, periodicity, entity, wvars>>

QueryOnLine ==
  /\ pc = "mesh"
  /\ entity.structdim = 1
  /\ Returned("get_new_point_on_line", get_new_point_on_line(manifold, periodicity, entity))

\* in one dimension a quad_iterator points to no entity
QueryOnQuad ==
  /\ pc = "mesh"
  /\ entity.structdim = 2 \/ manifold.dim = 1
  /\ Returned("get_new_point_on_quad", get_new_point_on_quad(manifold, periodicity, entity))

\* below three dimensions a hex_iterator points to no entity
QueryOnHex ==
  /\ pc = "mesh"
  /\ entity.structdim = 3 \/ manifold.dim < 3
  /\ Returned("get_new_point_on_hex", get_new_point_on_hex(manifold, periodicity, entity))

\* in one dimension a face is a vertex
QueryOnFace ==
  /\ pc = "mesh"
  /\ entity.structdim = manifold.dim - 1 \/ manifold.dim = 1
  /\ Returned("get_new_point_on_face", get_new_point_on_face(manifold, periodicity, entity))

QueryOnCell ==
  /\ pc = "mesh"
  /\ entity.structdim = manifold.dim
  /\ Returned("get_new_point_on_cell", get_new_point_on_cell(manifold, periodicity, entity))

\* a caller builds the default quadrature of a line or quad itself, in either
\* weighting mode, and passes it to get_new_point
QueryDefaultQuadrature ==
  /\ pc = "mesh"
  /\ entity.structdim \in {1, 2}
  /\ \E with_laplace \in BOOLEAN :
       Returned(IF with_laplace THEN "get_default_quadrature(laplace)"
                ELSE "get_default_quadrature",
                BuildAndAverage(manifold, periodicity,
                                DefaultQuadrature(entity, with_laplace), "caller"))

NextEntity ==
  \/ RefineLine \/ RefineFace
  \/ QueryOnLine \/ QueryOnQuad \/ QueryOnHex \/ QueryOnFace \/ QueryOnCell
  \/ QueryDefaultQuadrature

SpecEntity == InitEntity /\ [][NextEntity]_vars

\* ------------------------------------------------------ parallel workers
NWorkers == 2          \* workers calling get_new_point on the one manifold

Workers == 1..NWorkers

\* the quadratures the workers pass: a wrapped pair, a triple with a sample
\* outside the box, and one whose weights do not sum to 1
WorkerQuadratures ==
  << Quadrature(<< <<128, 3840>>, <<3840, 2304>> >>, <<192, 192>>),
     Quadrature(<< <<0, 0>>, <<2304, 128>>, <<4608, -256>> >>, <<96, 96, 192>>),
     Quadrature(<< <<2304, 128>> >>, <<192>>) >>

\* the frame of a call: where it is, its argument and its local variables
IdleFrame ==
  [pc |-> "idle", arg |-> 0, i |-> 0, chart_points |-> <<>>, minP |-> Origin, p |-> Origin,
   result |-> NoResult(Axes)]

InitWorkers ==
  /\ manifold \in Manifolds
  /\ periodicity \in Periodicities
  /\ manifold.class = "Manifold" => periodicity = Origin
  /\ entity = NoEntity
  /\ quad = EmptyQuadrature
  /\ pc = "workers"
  /\ query = "none"
  /\ trace = <<>>
  /\ result = NoResult(Axes)
  /\ pool = WorkerQuadratures
  /\ worker = [w \in Workers |-> IdleFrame]

Shared == <<manifold, periodicity, entity, quad, pc, query, trace, result>>

\* the quadrature FlatManifold::get_new_point reads in the call of worker w:
\* its argument, or the chart_quad local to ManifoldChart::get_new_point
FlatQuad(w) ==
  IF manifold.class = "ManifoldChart"
  THEN Quadrature(worker[w].chart_points, pool[worker[w].arg].weights)
  ELSE pool[worker[w].arg]

\* the periodicity member that call reads
FlatPeriodicity ==
  IF manifold.class = "ManifoldChart" THEN SubManifoldPeriodicity(periodicity) ELSE periodicity

Finish(w, status, point) ==
  worker' = [worker EXCEPT ![w].pc = "done", ![w].result = [status |-> status, point |-> point]]

\* worker w calls get_new_point(pool[k]) on the manifold
WorkerCall(w) ==
  /\ pc = "workers"
  /\ worker[w].pc = "idle"
  /\ \E k \in DOMAIN pool :
       worker' = [worker EXCEPT ![w] =
                    [IdleFrame EXCEPT !.arg = k, !.i = 1,
                       !.pc = IF manifold.class = "ManifoldChart" THEN "pull_back" ELSE "weights"]]
  /\ UNCHANGED <<Shared, pool>>

\* ManifoldChart::get_new_point, one turn of the loop of l.390-391
WorkerPullBack(w) ==
  /\ worker[w].pc = "pull_back"
  /\ LET f == worker[w]
         sp == pool[f.arg].points
     IN  IF f.i > Len(sp)
         THEN worker' = [worker EXCEPT ![w].pc = "weights", ![w].i = 1]
         ELSE worker' = [worker EXCEPT
                ![w].chart_points = Append(f.chart_points, pull_back(manifold.chart, sp[f.i])),
                ![w].i = f.i + 1]
  /\ UNCHANGED <<Shared, pool>>

\* the weight check of l.151-156 and l.321-326, then l.329-332
WorkerWeights(w) ==
  /\ worker[w].pc = "weights"
  /\ LET per == FlatPeriodicity
     IN  IF ~WeightsSumToOne(SumWeights(FlatQuad(w).weights, 1))
         THEN Finish(w, "ExcWeights", Origin)
         ELSE worker' = [worker EXCEPT
                ![w].i = 1, ![w].p = Origin, ![w].minP = MinPInit(per),
                ![w].pc = IF manifold.class = "Manifold" THEN "base_sum"
                          ELSE IF CheckPeriod(per) THEN "scan" ELSE "sum"]
  /\ UNCHANGED <<Shared, pool>>

\* Manifold::get_new_point, one turn of the loop of l.158-159, then l.161
WorkerBaseSum(w) ==
  /\ worker[w].pc = "base_sum"
  /\ LET f == worker[w]
         q == FlatQuad(w)
     IN  IF f.i > Len(q.points)
         THEN LET r == ManifoldProjectToManifold(q.points, f.p) IN Finish(w, r.status, r.point)
         ELSE worker' = [worker EXCEPT
                ![w].p = [d \in Axes |-> fadd(f.p[d], fmul(q.points[f.i][d], q.weights[f.i]))],
                ![w].i = f.i + 1]
  /\ UNCHANGED <<Shared, pool>>

\* (variant: minP is a reference to the periodicity member)
WorkerScanAliased(w) ==
  /\ worker[w].pc = "scan"
  /\ LET f == worker[w]
         q == FlatQuad(w)
         m == [d \in Axes |-> IF f.i <= Len(q.points) /\ q.points[f.i][d] < f.minP[d]
                              THEN q.points[f.i][d] ELSE f.minP[d]]
     IN  /\ IF f.i > Len(q.points)
            THEN worker' = [worker EXCEPT ![w].pc = "sum", ![w].i = 1]
            ELSE worker' = [worker EXCEPT ![w].minP = m, ![w].i = f.i + 1]
         /\ periodicity' = m
  /\ UNCHANGED <<manifold, entity, quad, pc, query, trace, result, pool>>

\* FlatManifold::get_new_point, one turn of the loop of l.334-340
WorkerScan(w) ==
  /\ worker[w].pc = "scan"
  /\ LET f == worker[w]
         q == FlatQuad(w)
     IN  IF f.i > Len(q.points)
         THEN worker' = [worker EXCEPT ![w].pc = "sum", ![w].i = 1]
         ELSE IF \E d \in Axes : FlatPeriodicity[d] > 0 /\ ~InPeriodicBox(q.points[f.i][d], FlatPeriodicity[d])
         THEN Finish(w, "ExcPeriodicBox", Origin)
         ELSE worker' = [worker EXCEPT
                ![w].minP = [d \in Axes |-> IF q.points[f.i][d] < f.minP[d]
                                            THEN q.points[f.i][d] ELSE f.minP[d]],
                ![w].i = f.i + 1]
  /\ UNCHANGED <<Shared, pool>>

\* FlatManifold::get_new_point, one turn of the loop of l.342-351
WorkerSum(w) ==
  /\ worker[w].pc = "sum"
  /\ LET f == worker[w]
         q == FlatQuad(w)
         check_period == CheckPeriod(FlatPeriodicity)
     IN  IF f.i > Len(q.points)
         THEN worker' = [worker EXCEPT ![w].pc = "unwrap"]
         ELSE worker' = [worker EXCEPT
                ![w].p = [d \in Axes |->
                            fadd(f.p[d],
                                 fmul(fadd(q.points[f.i][d],
                                           ShiftOf(q.points[f.i][d], f.minP[d], FlatPeriodicity[d],
                                                   check_period)),
                                      q.weights[f.i]))],
                ![w].i = f.i + 1]
  /\ UNCHANGED <<Shared, pool>>

\* FlatManifold::get_new_point, l.352-357; the chart then pushes forward
WorkerUnwrap(w) ==
  /\ worker[w].pc = "unwrap"
  /\ LET f == worker[w]
         p == FlatProjectToManifold(FlatQuad(w).points,
                                    UnwrapPoint(f.p, FlatPeriodicity, CheckPeriod(FlatPeriodicity)))
     IN  IF manifold.class = "ManifoldChart"
         THEN worker' = [worker EXCEPT ![w].p = p, ![w].pc = "push_forward"]
         ELSE Finish(w, "ok", p)
  /\ UNCHANGED <<Shared, pool>>

\* ManifoldChart::get_new_point, l.396
WorkerPushForward(w) ==
  /\ worker[w].pc = "push_forward"
  /\ Finish(w, "ok", push_forward(manifold.chart, worker[w].p))
  /\ UNCHANGED <<Shared, pool>>

\* the caller of worker w takes the point and is ready for another call
WorkerReturn(w) ==
  /\ worker[w].pc = "done"
  /\ worker' = [worker EXCEPT ![w] = IdleFrame]
  /\ UNCHANGED <<Shared, pool>>

NextWorkers ==
  \E w \in Workers :
    \/ WorkerCall(w) \/ WorkerPullBack(w) \/ WorkerWeights(w) \/ WorkerBaseSum(w)
    \/ WorkerScan(w) \/ WorkerSum(w) \/ WorkerUnwrap(w) \/ WorkerPushForward(w)
    \/ WorkerReturn(w)

SpecWorkers == InitWorkers /\ [][NextWorkers]_vars

\* ------------------------------------------------- vocabulary of the claims
Samples == DOMAIN quad.points
NSamples == Len(quad.points)

FlatCallDone == pc = "done" /\ manifold.class = "FlatManifold"
FlatCallOk == FlatCallDone /\ result.status = "ok"

PeriodicAxes == {d \in Axes : periodicity[d] > 0}

\* the least coordinate of the samples on axis d
MinCoordinate(d) ==
  CHOOSE m \in {quad.points[i][d] : i \in Samples} : \A i \in Samples : m <= quad.points[i][d]

\* the rounded sum of weights[i] * c[i], accumulated in index order
RECURSIVE WeightedSum(_, _, _, _)
WeightedSum(c, weights, acc, i) ==
  IF i > Len(c) THEN acc
  ELSE WeightedSum(c, weights, fadd(acc, fmul(c[i], weights[i])), i + 1)

AddBack(x, L) == IF x < 0 THEN fadd(x, L) ELSE x

ValidWeights == SumWeights(quad.weights, 1) = WDen /\ \A i \in Samples : quad.weights[i] >= 0

\* every sample lies in [0, L) on every periodic axis
SamplesInBox == \A i \in Samples : \A d \in PeriodicAxes :
                  0 <= quad.points[i][d] /\ quad.points[i][d] < periodicity[d]

\* ---- C1 as stated: the wrap test is on the exact difference coordinate - minP
ExactContribution(i, d) ==
  IF 2 * (quad.points[i][d] - MinCoordinate(d)) > periodicity[d]
  THEN fsub(quad.points[i][d], periodicity[d]) ELSE quad.points[i][d]

TwoHalves == NSamples = 2 /\ quad.weights = <<192, 192>>

\* C1 (original statement): on every periodic axis each sample whose
\* coordinate exceeds minP by more than L/2 contributes coordinate - L, every
\* other sample its coordinate; two samples of weight 1/2 at a < b in [0, L)
\* with b - a > L/2 give (a + b - L)/2, plus L if negative, never (a + b)/2.
C1_Original ==
  FlatCallOk =>
    \A d \in PeriodicAxes :
      /\ result.point[d] =
           AddBack(WeightedSum([i \in Samples |-> ExactContribution(i, d)], quad.weights, 0, 1),
                   periodicity[d])
      /\ \A a, b \in {quad.points[i][d] : i \in Samples} :
           (TwoHalves /\ 0 <= a /\ a < b /\ b < periodicity[d] /\ 2 * (b - a) > periodicity[d])
             => /\ result.point[d] = AddBack(RoundSig(a + b - periodicity[d], 2), periodicity[d])
                /\ result.point[d] # RoundSig(a + b, 2)

\* ---- C1 as amended: the wrap test is on the difference as the double
\* subtraction rounds it
RoundedContribution(i, d) ==
  IF 2 * fsub(quad.points[i][d], MinCoordinate(d)) > periodicity[d]
  THEN fsub(quad.points[i][d], periodicity[d]) ELSE quad.points[i][d]

\* C1 (amended): on every periodic axis each sample whose coordinate minus
\* minP, rounded to a double, exceeds L/2 contributes coordinate - L, every
\* other sample its coordinate; two samples of weight 1/2 at a < b in [0, L)
\* whose rounded difference exceeds L/2 give (a + b - L)/2 rounded, plus L if
\* negative, never the arithmetic mean.
C1_WrapRule ==
  FlatCallOk =>
    \A d \in PeriodicAxes :
      /\ result.point[d] =
           AddBack(WeightedSum([i \in Samples |-> RoundedContribution(i, d)], quad.weights, 0, 1),
                   periodicity[d])
      /\ \A a, b \in {quad.points[i][d] : i \in Samples} :
           (TwoHalves /\ 0 <= a /\ a < b /\ b < periodicity[d] /\ 2 * fsub(b, a) > periodicity[d])
             => /\ result.point[d] = AddBack(RoundSig(a + b - periodicity[d], 2), periodicity[d])
                /\ result.point[d] # RoundSig(a + b, 2)

\* two samples of weight 1/2 in the box, the upper one wrapped around
C1_Witness ==
  /\ FlatCallOk /\ TwoHalves /\ SamplesInBox
  /\ \E d \in PeriodicAxes :
       /\ quad.points[1][d] < quad.points[2][d]
       /\ 2 * fsub(quad.points[2][d], quad.points[1][d]) > periodicity[d]

\* C2 (as stated): valid weights and all samples in [0, L) on every periodic
\* axis give a point whose coordinate on each periodic axis is in [0, L).
C2_ResultInBox ==
  (FlatCallDone /\ ValidWeights /\ SamplesInBox) =>
    /\ result.status = "ok"
    /\ \A d \in PeriodicAxes : 0 <= result.point[d] /\ result.point[d] < periodicity[d]

\* a sample lies outside [0, L] on a periodic axis
OutsideBox(i, d) == quad.points[i][d] < 0 \/ quad.points[i][d] > periodicity[d]

\* C3 (as stated): with a periodic axis, a sample outside [0, L) beyond the
\* tolerance on a periodic axis makes the call fail and return no point, and
\* the geometry-bounds violation is raised only for such a sample.
C3_OutOfBoxFails ==
  (FlatCallDone /\ PeriodicAxes # {}) =>
    /\ (\E i \in Samples : \E d \in PeriodicAxes : OutsideBox(i, d))
         => /\ result.status # "ok"
            /\ ValidWeights => result.status = "ExcPeriodicBox"
    /\ result.status = "ExcPeriodicBox"
         => \E i \in Samples : \E d \in PeriodicAxes : OutsideBox(i, d)

\* every sample point is the same point, which meets the periodic-axis
\* precondition
Degenerate ==
  /\ NSamples >= 1
  /\ \A i \in Samples : quad.points[i] = quad.points[1]
  /\ \A d \in PeriodicAxes : 0 <= quad.points[1][d] /\ quad.points[1][d] <= periodicity[d]

\* C8 (original statement): if every sample equals P, the weights are valid
\* and P meets the precondition, get_new_point returns exactly P.
C8_Original ==
  (FlatCallDone /\ ValidWeights /\ Degenerate) =>
    result.status = "ok" /\ result.point = quad.points[1]

\* the products and partial sums of these quadratures are exact
ExactWeights == quad.weights = <<WDen>> \/ quad.weights = <<192, 192>>

\* C8 (amended): if every sample equals P, no sample is shifted by -L and L
\* is never added back: the point returned is the rounded weighted sum of
\* the copies of P, which differs from P by at most the accumulated rounding
\* error n*u/(1 - n*u)*|P| (u = 2^-Prec), and is exactly P for one sample of
\* weight 1 and for two samples of weight 1/2.
C8_DegenerateUpToRounding ==
  (FlatCallDone /\ ValidWeights /\ Degenerate) =>
    /\ result.status = "ok"
    /\ \A d \in Axes :
         LET P == quad.points[1][d] IN
         /\ result.point[d] = WeightedSum([i \in Samples |-> P], quad.weights, 0, 1)
         /\ Abs(result.point[d] - P) * (Pow2(Prec) - NSamples) <= NSamples * Abs(P)
         /\ ExactWeights => result.point[d] = P

\* a degenerate quadrature of several samples on a periodic manifold whose
\* rounded average is not P
C8_Witness ==
  /\ FlatCallOk /\ ValidWeights /\ Degenerate
  /\ NSamples >= 2 /\ PeriodicAxes # {}
  /\ result.point # quad.points[1]

ChartCallDone == pc = "done" /\ manifold.class = "ManifoldChart"

\* quad with every point pulled back into the chart, weights untouched
PulledBack ==
  Quadrature([i \in Samples |-> pull_back(manifold.chart, quad.points[i])], quad.weights)

\* C10: ManifoldChart::get_new_point(quad) is push_forward of the point that
\* a FlatManifold with the chart periodicity returns for the pulled-back
\* quadrature of the same weights, and fails when that call fails; with the
\* identity chart it is FlatManifold::get_new_point(quad) itself.
C10_ChartDelegates ==
  ChartCallDone =>
    LET f == FlatGetNewPoint(PulledBack, periodicity) IN
    /\ result.status = f.status
    /\ f.status = "ok" => result.point = push_forward(manifold.chart, f.point)
    /\ manifold.chart = "identity" => result = FlatGetNewPoint(quad, periodicity)

\* a chart call on a periodic chart axis where a sample was wrapped around
C10_Witness ==
  /\ ChartCallDone /\ result.status = "ok" /\ manifold.chart # "identity"
  /\ \E d \in PeriodicAxes : \E i \in Samples :
       WrapShift(PulledBack.points[i][d],
                 MinPLoop(PulledBack.points, d, periodicity[d], 1), periodicity[d]) # 0

\* ------------------------------------------------------ claims on queries
\* the call built a default quadrature
Built == pc = "done" /\ \E k \in DOMAIN trace : trace[k] = "get_default_quadrature"

Laplace == query = "get_default_quadrature(laplace)"

\* w is the weight n/d
IsWeight(w, n, d) == w * d = n * WDen

\* C4: every default quadrature has weights that sum to 1 (2 of 1/2; 8 of
\* 1/8; 4 of 1/16 and 4 of 3/16; 8 of 1/128, 12 of 7/192 and 6 of 1/12), so
\* the weight-sum assertion of get_new_point never fires on it, whichever
\* lines and faces have children.
C4_WeightsSumToOne ==
  Built =>
    /\ SumWeights(quad.weights, 1) = WDen
    /\ result.status # "ExcWeights"
    /\ entity.structdim = 1 =>
         Len(quad.weights) = 2 /\ \A j \in 1..2 : IsWeight(quad.weights[j], 1, 2)
    /\ (entity.structdim = 2 /\ ~Laplace) =>
         Len(quad.weights) = 8 /\ \A j \in 1..8 : IsWeight(quad.weights[j], 1, 8)
    /\ (entity.structdim = 2 /\ Laplace) =>
         /\ Len(quad.weights) = 8
         /\ \A j \in 1..4 : IsWeight(quad.weights[j], 1, 16)
         /\ \A j \in 5..8 : IsWeight(quad.weights[j], 3, 16)
    /\ entity.structdim = 3 =>
         /\ Len(quad.weights) = 26
         /\ \A j \in 1..8 : IsWeight(quad.weights[j], 1, 128)
         /\ \A j \in 9..20 : IsWeight(quad.weights[j], 7, 192)
         /\ \A j \in 21..26 : IsWeight(quad.weights[j], 1, 12)

\* a hex with a refined line or face was averaged without a violation
C4_Witness ==
  /\ Built /\ entity.structdim = 3 /\ NRefined > 0
  /\ query = "get_new_point_on_hex" /\ result.status = "ok"

\* the sample the claim prescribes for a line or face
ExpectedSample(sub) == IF sub.has_children THEN sub.child_vertex ELSE sub.center

\* the default quadrature of the entity after the refinement flag of line i
\* (of face i) is flipped
Rebuilt(e) ==
  IF e.structdim = 3 THEN HexDefaultQuadrature(e).quad ELSE DefaultQuadrature(e, Laplace).quad
FlipLine(i) == [entity EXCEPT !.lines[i].has_children = ~@]
FlipFace(i) == [entity EXCEPT !.faces[i].has_children = ~@]

\* C5: a quad has 8 samples (4 vertices, 4 line samples), a hex 26 (8
\* vertices of weight 1/128, 12 line samples of weight 7/192, 6 face samples
\* of weight 1/12), points and weights aligned; the sample of a line or face
\* is its child vertex exactly when it has children, else its centre; and
\* the refinement state of one line or face changes no other sample and no
\* weight.
C5_DefaultSamples ==
  (Built /\ entity.structdim >= 2) =>
    LET nv == Len(entity.vertices)
        nl == Len(entity.lines)
        nf == Len(entity.faces)
    IN  /\ Len(quad.points) = (IF entity.structdim = 2 THEN 8 ELSE 26)
        /\ Len(quad.weights) = Len(quad.points)
        /\ nv + nl + nf = Len(quad.points)
        /\ \A i \in 1..nv : quad.points[i] = entity.vertices[i]
        /\ \A i \in 1..nl : quad.points[nv + i] = ExpectedSample(entity.lines[i])
        /\ \A i \in 1..nf : quad.points[nv + nl + i] = ExpectedSample(entity.faces[i])
        /\ entity.structdim = 3 =>
             /\ \A i \in 1..nv : IsWeight(quad.weights[i], 1, 128)
             /\ \A i \in 1..nl : IsWeight(quad.weights[nv + i], 7, 192)
             /\ \A i \in 1..nf : IsWeight(quad.weights[nv + nl + i], 1, 12)
        /\ \A i \in 1..nl :
             LET q2 == Rebuilt(FlipLine(i)) IN
             /\ q2.weights = quad.weights
             /\ \A j \in DOMAIN quad.points : j # nv + i => q2.points[j] = quad.points[j]
             /\ q2.points[nv + i] # quad.points[nv + i]
        /\ \A i \in 1..nf :
             LET q2 == Rebuilt(FlipFace(i)) IN
             /\ q2.weights = quad.weights
             /\ \A j \in DOMAIN quad.points : j # nv + nl + i => q2.points[j] = quad.points[j]
             /\ q2.points[nv + nl + i] # quad.points[nv + nl + i]

\* the quadrature of a hex with a refined line and a refined face was built
C5_Witness ==
  /\ Built /\ entity.structdim = 3
  /\ \E i \in DOMAIN entity.lines : entity.lines[i].has_children
  /\ \E i \in DOMAIN entity.faces : entity.faces[i].has_children

Outcome(r) == [status |-> r.status, point |-> r.point]

\* C6: get_new_point_on_cell returns what get_new_point_on_line (dim 1),
\* get_new_point_on_quad (dim 2) or get_new_point_on_hex (dim 3) returns for
\* the same entity, and get_new_point_on_face what get_new_point_on_line
\* (dim 2) or get_new_point_on_quad (dim 3) returns; the choice depends on
\* dim only.
C6_Dispatch ==
  /\ (pc = "done" /\ query = "get_new_point_on_cell") =>
       LET r == CASE manifold.dim = 1 -> get_new_point_on_line(manifold, periodicity, entity)
                  [] manifold.dim = 2 -> get_new_point_on_quad(manifold, periodicity, entity)
                  [] manifold.dim = 3 -> get_new_point_on_hex(manifold, periodicity, entity)
       IN  result = Outcome(r) /\ quad = r.quad /\ trace = <<query>> \o r.trace
  /\ (pc = "done" /\ query = "get_new_point_on_face" /\ manifold.dim > 1) =>
       LET r == CASE manifold.dim = 2 -> get_new_point_on_line(manifold, periodicity, entity)
                  [] manifold.dim = 3 -> get_new_point_on_quad(manifold, periodicity, entity)
       IN  result = Outcome(r) /\ quad = r.quad /\ trace = <<query>> \o r.trace

\* a cell query on a manifold of dimension 2 in 3-space returned a point
C6_Witness ==
  /\ pc = "done" /\ query = "get_new_point_on_cell"
  /\ manifold.dim = 2 /\ manifold.spacedim = 3
  /\ result.status = "ok" /\ Len(quad.points) = 8

\* the query is incompatible with the dimension of the manifold
Incompatible ==
  \/ query \in {"get_new_point_on_face", "get_new_point_on_quad"} /\ manifold.dim = 1
  \/ query = "get_new_point_on_hex" /\ manifold.dim # 3

\* C7: a query incompatible with the dimension of the manifold always ends in
\* the ExcImpossibleInDim violation, builds no quadrature and never calls
\* get_new_point.
C7_ImpossibleInDim ==
  (pc = "done" /\ Incompatible) =>
    /\ result.status = "ExcImpossibleInDim"
    /\ quad = EmptyQuadrature
    /\ \A k \in DOMAIN trace : trace[k] \notin {"get_default_quadrature", "get_new_point"}

\* each of the three incompatible queries was made
C7_Witness ==
  /\ pc = "done" /\ Incompatible /\ result.status = "ExcImpossibleInDim"
  /\ query = "get_new_point_on_quad" /\ manifold.spacedim = 3

\* ------------------------------------------------- claim on parallel calls
\* C9: get_new_point modifies neither the periodicity of the manifold nor the
\* quadrature passed to it, so every call made by a worker, however the calls
\* of the workers interleave, returns what the same call returns alone.
C9_CallsIndependent ==
  /\ [](\A w \in Workers :
          worker[w].pc = "done" =>
            worker[w].result = GetNewPoint(manifold, periodicity, pool[worker[w].arg]))
  /\ [][periodicity' = periodicity /\ pool' = pool /\ manifold' = manifold]_vars

\* two workers are inside get_new_point on a periodic manifold at once, with
\* the same quadrature, one of them already past its first loop
C9_Witness ==
  /\ pc = "workers" /\ PeriodicAxes # {}
  /\ \E v, w \in Workers :
       /\ v # w /\ worker[v].arg = worker[w].arg
       /\ worker[v].pc = "scan" /\ worker[w].pc = "done" /\ worker[w].result.status = "ok"

====
